---------------------------- MODULE Spec2Model ----------------------------
(***************************************************************************)
(* State-machine model of the core of SDV_new2.py: the drive-step model    *)
(* (simulate_drive_step), the ECU snapshot (compute_ecu_snapshot), the     *)
(* battery risk score (PredictiveMaintenance.compute_risk_score) and the   *)
(* toy ECU worker with its two queues (ecu_process and                     *)
(* sil_virtualization_demo).                                               *)
(*                                                                         *)
(* Python floats are modelled in fixed point.  Every quantity names its    *)
(* unit:                                                                   *)
(*    speed        1e-5 km/h      (SpeedUnit  per km/h)                    *)
(*    speed_ms     1e-5 m/s                                                *)
(*    accel, decel 1e-4 m/s^2                                              *)
(*    current      1e-7 A         (CurUnit per A)                          *)
(*    soc          1e-6 percent   (SocUnit per percent)                    *)
(*    temperature  1e-5 degC      (TempUnit per degC)                      *)
(*    dt_seconds   tenths of a second                                      *)
(* For throttle and brake percentages that are multiples of 10 and the     *)
(* step durations used here, speed and current are exact; soc and          *)
(* temperature increments are truncated (floor) at their resolution, which *)
(* stands for the rounding of the float operations.                        *)
(***************************************************************************)
EXTENDS Integers, Sequences, FiniteSets, TLC

VARIABLES
    \* the driving dashboard
    drive,      \* st.session_state["drive"]: a dict, key -> value (empty until the first step)
    drive_log,  \* st.session_state["drive_log"]: list of rows (absent reads as [])
    now,        \* the wall clock read by datetime.now(), in milliseconds
    produced,   \* history: every row simulate_drive_step has returned, in order
    controls,   \* the dashboard's widget values at the last button press
    \* the ECU monitor
    snaps,      \* history: the snapshots taken since the last drive step, with their inputs
    \* the SIL demo: the caller (the page script) and the worker process
    registered, \* whether "ecu_proc", "cmd_q" and "resp_q" are keys of st.session_state
    proc_gen,   \* how many worker processes have been started (the identity of the current one)
    cmd_q,      \* contents of the command queue of the current worker
    resp_q,     \* contents of the response queue of the current worker
    worker,     \* the worker process: its place in ecu_process and its private speed
    caller,     \* where the page script is: "idle", "await" (in resp_q.get), "join"
    report,     \* what the page last showed about the ECU
    sent,       \* history: everything put on cmd_q of the current worker, in order
    emitted,    \* history: everything the current worker has put on resp_q, in order
    \* predictive maintenance
    df,         \* the telemetry frame handed to compute_risk_score
    scored,     \* history: the results of the calls made since df last changed
    \* telemetry sources
    rng,        \* the state of the global generator behind np.random
    sims,       \* history: the calls of TelemetrySource.simulate, arguments and result
    reads,      \* history: the calls of TelemetrySource.read_can_csv, file and result
    op          \* the operation that produced the current state

driveVars == <<drive, drive_log, now, produced, controls>>
silVars   == <<registered, proc_gen, cmd_q, resp_q, worker, caller, report, sent, emitted>>
riskVars  == <<df, scored>>
teleVars  == <<rng, sims, reads>>
vars == <<drive, drive_log, now, produced, controls, snaps, registered, proc_gen,
          cmd_q, resp_q, worker, caller, report, sent, emitted, df, scored,
          rng, sims, reads, op>>

-----------------------------------------------------------------------------
(* Bounds of the model *)

\* number of drive steps outside the long run
MaxSteps == 2
\* number of drive steps of the long run (beyond the log capacity)
MaxLongSteps == 2220
\* speed at which the long-run driver stops accelerating, km/h
CruiseKmh == 100
\* wall-clock time that passes per drive step, in milliseconds
TickMs == 400
\* number of drive steps in the ECU-monitor specification
MaxViewSteps == 5
\* number of snapshots taken between two drive steps
MaxSnapshots == 2
\* number of commands sent to one worker
MaxCmds == 3
\* number of worker processes started in a session
MaxProcs == 2
\* number of rows of a telemetry frame
MaxRows == 3
\* number of risk-score calls on one frame
MaxScores == 2
\* number of drive steps of a car that is left to coast
MaxCoastSteps == 150
\* number of full-throttle commands sent to a fresh worker
MaxRampCmds == 30
\* number of calls of TelemetrySource.simulate
MaxSims == 2
\* drive steps with the sliders next to the thresholds of the regeneration rule
MaxEdgeSteps == 2
\* drive steps and commands of a session that uses the dashboard and the SIL page
MaxMixSteps == 2
MaxMixCmds == 2
\* number of files read, and the number of rows of a file
MaxReads == 1
MaxCsvRows == 2
\* number of clock ticks between the calls of the telemetry sources
MaxTicks == 2

-----------------------------------------------------------------------------
(* Units and arithmetic helpers *)

SpeedUnit == 10^5
CurUnit   == 10^7
SocUnit   == 10^6
TempUnit  == 10^5

Max(a, b) == IF a >= b THEN a ELSE b
Min(a, b) == IF a <= b THEN a ELSE b
Abs(a)    == IF a >= 0 THEN a ELSE -a

\* floor(a * b / c) for b >= 0, c > 0 without forming the product a * b
MulDiv(a, b, c) == (a \div c) * b + ((a % c) * b) \div c

\* round(x, n) of Python on the exact value: a in units of 1/m of the target
\* unit, rounded to the nearest target unit, ties to even
RoundHalfEven(a, m) ==
    LET q == a \div m
        r == a % m
    IN  IF 2 * r < m THEN q
        ELSE IF 2 * r > m THEN q + 1
        ELSE IF q % 2 = 0 THEN q ELSE q + 1

\* dict.get(k, default)
Get(d, k, default) == IF k \in DOMAIN d THEN d[k] ELSE default

-----------------------------------------------------------------------------
(* Mode strings: a string is the sequence of its characters *)

LowerLetters == <<"a","b","c","d","e","f","g","h","i","j","k","l","m",
                  "n","o","p","q","r","s","t","u","v","w","x","y","z">>
UpperLetters == <<"A","B","C","D","E","F","G","H","I","J","K","L","M",
                  "N","O","P","Q","R","S","T","U","V","W","X","Y","Z">>

IndexIn(c, letters) ==
    IF \E i \in 1..Len(letters) : letters[i] = c
    THEN CHOOSE i \in 1..Len(letters) : letters[i] = c
    ELSE 0

ToUpper(c) == IF IndexIn(c, LowerLetters) > 0
              THEN UpperLetters[IndexIn(c, LowerLetters)] ELSE c
ToLower(c) == IF IndexIn(c, UpperLetters) > 0
              THEN LowerLetters[IndexIn(c, UpperLetters)] ELSE c

\* variant: the whole string is lowered (mode.lower())
capitalize_Lower(s) == [i \in 1..Len(s) |-> ToLower(s[i])]

\* str.capitalize(): first character upper-cased, the rest lower-cased
capitalize(s) ==
    [i \in 1..Len(s) |-> IF i = 1 THEN ToUpper(s[i]) ELSE ToLower(s[i])]

NormalStr == <<"N","o","r","m","a","l">>
EcoStr    == <<"E","c","o">>
SportStr  == <<"S","p","o","r","t">>
SnowStr   == <<"S","n","o","w">>
RegenStr  == <<"R","e","g","e","n">>

FiveModes == {NormalStr, EcoStr, SportStr, SnowStr, RegenStr}

\* the if/elif chain of mode multipliers, in tenths:
\* accel *= a/10, cur_factor = cur/10, regen_factor = regen/10
ModeFactors(mode) ==
    IF mode = EcoStr        THEN [a |-> 7,  cur |-> 7,  regen |-> 11]
    ELSE IF mode = SportStr THEN [a |-> 14, cur |-> 13, regen |-> 9]
    ELSE IF mode = SnowStr  THEN [a |-> 6,  cur |-> 8,  regen |-> 10]
    ELSE IF mode = RegenStr THEN [a |-> 9,  cur |-> 9,  regen |-> 14]
    ELSE                         [a |-> 10, cur |-> 10, regen |-> 10]

-----------------------------------------------------------------------------
(* simulate_drive_step *)

\* capacity of the drive log
LogCapacity == 2000

\* variant: the rolling resistance of 0.1 m/s^2 is left out of the deceleration
SpeedUpdate_NoDrag(speed, accel, decel, dt) ==
    LET speed_ms  == (speed * 10) \div 36
        speed_ms2 == Max(0, speed_ms + (accel - (decel - 1000)) * dt)
    IN  (speed_ms2 * 36) \div 10

\* variant: the integration without the floor at zero
SpeedUpdate_NoFloor(speed, accel, decel, dt) ==
    LET speed_ms  == (speed * 10) \div 36
        speed_ms2 == speed_ms + (accel - decel) * dt
    IN  (speed_ms2 * 36) \div 10

\* speed update: km/h -> m/s, integrate, floor at zero, m/s -> km/h
SpeedUpdate(speed, accel, decel, dt) ==
    LET speed_ms  == (speed * 10) \div 36
        speed_ms2 == Max(0, speed_ms + (accel - decel) * dt)
    IN  (speed_ms2 * 36) \div 10

\* rpm = min(7000, 800 + (speed * 40) * (1 + throttle_pct / 100.0)); int(rpm)
\* (speed * 40 * (100 + throttle_pct) / 100 rpm, speed >= 0)
RpmOf(speed, throttle_pct) ==
    LET k == 100 + throttle_pct
        x == MulDiv(speed, Abs(k), 250000)
    IN  Min(7000, 800 + (IF k >= 0 THEN x ELSE -x))

\* current = ((throttle_pct / 100.0) * 60.0 + max(0, speed / 20.0) * 2.0) * cur_factor
CurrentOf(speed, throttle_pct, cur_factor) ==
    (600000 * throttle_pct + Max(0, speed)) * cur_factor

\* variant: any braking above 10 % counts as regeneration, whatever the throttle
SocDelta_AnyBrake(current, dt, mode, throttle_pct, brake_pct, regen_factor) ==
    LET soc_delta == MulDiv(current, dt, 200000)
    IN  IF mode = RegenStr \/ brake_pct > 10
        THEN (soc_delta * 7) \div regen_factor
        ELSE soc_delta

\* soc_delta = (current * dt_seconds) * 0.0005, scaled by 0.7 / regen_factor
\* in Regen mode or when coasting on the brake
\* variant: regeneration gives charge back (the regen branch changes the sign)
SocDelta_Recharge(current, dt, mode, throttle_pct, brake_pct, regen_factor) ==
    LET soc_delta == MulDiv(current, dt, 200000)
    IN  IF mode = RegenStr \/ (throttle_pct < 20 /\ brake_pct > 10)
        THEN 0 - (soc_delta * 7) \div regen_factor
        ELSE soc_delta

SocDelta(current, dt, mode, throttle_pct, brake_pct, regen_factor) ==
    LET soc_delta == MulDiv(current, dt, 200000)
    IN  IF mode = RegenStr \/ (throttle_pct < 20 /\ brake_pct > 10)
        THEN (soc_delta * 7) \div regen_factor
        ELSE soc_delta

SocUpdate(soc, soc_delta) == Max(5 * SocUnit, soc - soc_delta)

\* variant: with the throttle closed the pack cools by 0.001 degC per second
TempUpdate_Cooling(temp, current, dt, throttle_pct) ==
    temp + MulDiv(current, dt, 10^6) + 10 * throttle_pct
    - (IF throttle_pct = 0 THEN 10 * dt ELSE 0)

\* temp = temp + (current * 0.001 * dt_seconds) + (throttle_pct / 100.0) * 0.01
TempUpdate(temp, current, dt, throttle_pct) ==
    temp + MulDiv(current, dt, 10^6) + 10 * throttle_pct

\* cycles = min(1000, cycles + int(abs(current) * dt_seconds / 100.0))
CyclesUpdate(cycles, current, dt) ==
    Min(1000, cycles + MulDiv(Abs(current), dt, 10^5) \div 10^5)

\* the new "drive" dict and the returned row of one call
DriveStepResult(s, ts, throttle_pct, brake_pct, dt_seconds, mode_arg) ==
    LET speed0  == Get(s, "speed", 0)
        soc0    == Get(s, "soc", 95 * SocUnit)
        temp0   == Get(s, "temperature", 30 * TempUnit)
        cycles0 == Get(s, "cycles", 0)
        mode    == capitalize(mode_arg)
        f       == ModeFactors(mode)
        accel   == 35 * throttle_pct * f.a
        decel   == 600 * brake_pct + 1000
        speed   == SpeedUpdate(speed0, accel, decel, dt_seconds)
        rpm     == RpmOf(speed, throttle_pct)
        current == CurrentOf(speed, throttle_pct, f.cur)
        soc     == SocUpdate(soc0, SocDelta(current, dt_seconds, mode,
                                            throttle_pct, brake_pct, f.regen))
        temp    == TempUpdate(temp0, current, dt_seconds, throttle_pct)
        cycles  == CyclesUpdate(cycles0, current, dt_seconds)
        row     == [timestamp   |-> ts,
                    speed       |-> RoundHalfEven(speed, SpeedUnit \div 100),
                    rpm         |-> rpm,
                    current     |-> RoundHalfEven(current, CurUnit \div 1000),
                    temperature |-> RoundHalfEven(temp, TempUnit \div 100),
                    soc         |-> RoundHalfEven(soc, SocUnit \div 1000),
                    cycles      |-> cycles,
                    throttle    |-> throttle_pct,
                    brake       |-> brake_pct,
                    mode        |-> mode]
        \* s.update({...}): these five are the only keys "drive" ever holds
        updated == [speed       |-> speed,
                    soc         |-> soc,
                    temperature |-> temp,
                    cycles      |-> cycles,
                    mode        |-> mode]
    IN  [drive |-> updated, row |-> row]

\* variant: the truncation keeps the oldest 2000 rows (del log[2000:])
LogAppend_KeepOldest(log, row) ==
    LET appended == Append(log, row)
    IN  IF Len(appended) > LogCapacity
        THEN SubSeq(appended, 1, LogCapacity)
        ELSE appended

\* log.append(row); if len(log) > 2000: del log[:len(log) - 2000]
LogAppend(log, row) ==
    LET appended == Append(log, row)
    IN  IF Len(appended) > LogCapacity
        THEN SubSeq(appended, Len(appended) - LogCapacity + 1, Len(appended))
        ELSE appended

\* variant: a step that leaves the vehicle at rest is not logged
simulate_drive_step_SkipAtRest(w, throttle_pct, brake_pct, dt_seconds, mode_arg) ==
    LET r == DriveStepResult(w.drive, w.now, throttle_pct, brake_pct,
                             dt_seconds, mode_arg)
    IN  [drive     |-> r.drive,
         drive_log |-> IF r.drive.speed = 0 THEN w.drive_log
                       ELSE LogAppend(w.drive_log, r.row),
         produced  |-> IF r.drive.speed = 0 THEN w.produced
                       ELSE Append(w.produced, r.row),
         now       |-> w.now + TickMs]

\* One call of simulate_drive_step on the world w = [drive, drive_log, now,
\* produced]: the new world. The clock moves on by one tick per call.
simulate_drive_step(w, throttle_pct, brake_pct, dt_seconds, mode_arg) ==
    LET r == DriveStepResult(w.drive, w.now, throttle_pct, brake_pct,
                             dt_seconds, mode_arg)
    IN  [drive     |-> r.drive,
         drive_log |-> LogAppend(w.drive_log, r.row),
         produced  |-> Append(w.produced, r.row),
         now       |-> w.now + TickMs]

\* for i in range(steps): simulate_drive_step(...)   (the "Run" button)
\* The loop body is applied steps times in order. The iterations are grouped
\* in halves, and the first half is evaluated before the second is entered
\* (the test on mid.now, which always holds), to keep the evaluation shallow.
RECURSIVE RunLoop(_, _, _, _, _, _)
RunLoop(w, steps, throttle_pct, brake_pct, dt_seconds, mode_arg) ==
    IF steps = 0 THEN w
    ELSE IF steps = 1
    THEN simulate_drive_step(w, throttle_pct, brake_pct, dt_seconds, mode_arg)
    ELSE LET half == steps \div 2
             mid  == RunLoop(w, half, throttle_pct, brake_pct, dt_seconds, mode_arg)
         IN  IF mid.now >= w.now
             THEN RunLoop(mid, steps - half, throttle_pct, brake_pct, dt_seconds, mode_arg)
             ELSE mid

\* the values of the dashboard's widgets: selectbox "Driving mode", sliders
\* "Throttle (%)" and "Brake (%)", number_input "Steps", selectbox "Step duration (s)"
Controls(m, t, b, n, dt) ==
    [mode |-> m, throttle |-> t, brake |-> b, steps |-> n, dt |-> dt]

\* the widgets as a fresh session shows them (value=0, value=6, index=1)
DefaultControls == Controls(NormalStr, 0, 0, 6, 5)

World == [drive |-> drive, drive_log |-> drive_log, produced |-> produced, now |-> now]

SetWorld(w) ==
    /\ drive' = w.drive
    /\ drive_log' = w.drive_log
    /\ produced' = w.produced
    /\ now' = w.now


-----------------------------------------------------------------------------
(* compute_ecu_snapshot *)

\* the default "drive" dict of st.session_state.get("drive", {...})
DefaultDrive ==
    [speed |-> 0, soc |-> 95 * SocUnit, temperature |-> 30 * TempUnit,
     cycles |-> 0, mode |-> NormalStr]

\* the dict the snapshot is derived from
SnapshotDrive == IF DOMAIN drive = {} THEN DefaultDrive ELSE drive

\* the sample index: idx = len(log)
SnapshotIndex == Len(drive_log)

\* variant: the link is lost only from 90 km/h on
NetworkStatus_Late(speed) ==
    IF speed < 90 * SpeedUnit THEN "Online" ELSE "Offline"

\* "Online" if speed < 80 else "Offline"
NetworkStatus(speed) ==
    IF speed < 80 * SpeedUnit THEN "Online" ELSE "Offline"

\* variant: the state of health without its floor of 60
SohOf_NoFloor(cycles, temp) ==
    100 * 10^6 - cycles * 20000 - Max(0, temp - 35 * TempUnit)

\* soh = max(60.0, 100.0 - cycles * 0.02 - max(0, temp - 35) * 0.1), in 1e-6
SohOf(cycles, temp) ==
    Max(60 * 10^6,
        100 * 10^6 - cycles * 20000 - Max(0, temp - 35 * TempUnit))

\* The four views as functions of the drive dict d and the index idx.
\* cabin_temp, soh and obstacle_distance are in 1e-6 of their unit.
\* lane_offset = sin(idx / 15.0) * 0.4 is a function of idx alone; the model
\* carries its argument (lane_phase = idx, in fifteenths of a radian) and not
\* the value of the sine.
EcuViews(d, idx) ==
    LET speed    == d.speed
        temp     == d.temperature
        cycles   == d.cycles
        soh      == SohOf(cycles, temp)
        obstacle == Max(5 * 10^6, 80 * 10^6 - speed * 5)
    IN  [BCM  |-> [headlights_on |-> (speed < 5 * SpeedUnit) \/ (idx % 20 >= 10),
                   doors_locked  |-> idx % 7 # 0,
                   cabin_temp    |-> 24 * 10^6 + Max(0, temp - 30 * TempUnit)],
         BMS  |-> [soc    |-> d.soc,
                   temp   |-> temp,
                   cycles |-> cycles,
                   soh    |-> soh,
                   status |-> IF soh > 80 * 10^6 THEN "OK"
                              ELSE IF soh > 70 * 10^6 THEN "Monitor"
                              ELSE "Degraded"],
         TCU  |-> [network_status  |-> NetworkStatus(speed),
                   signal_strength |-> Max(1, 5 - (Abs(speed - 60 * SpeedUnit) * 3)
                                                     \div (60 * SpeedUnit)),
                   gps_fix         |-> IF speed > 1 * SpeedUnit
                                       THEN "3D" ELSE "2D/Static"],
         ADAS |-> [lane_phase        |-> idx,
                   obstacle_distance |-> obstacle,
                   collision_warn    |-> speed > 40 * SpeedUnit /\ obstacle < 20 * 10^6],
         meta |-> [speed |-> speed, mode |-> d.mode]]

\* variant: the index counts the renders as well as the log rows
compute_ecu_snapshot_Counting == EcuViews(SnapshotDrive, SnapshotIndex + Len(snaps))

compute_ecu_snapshot == EcuViews(SnapshotDrive, SnapshotIndex)

-----------------------------------------------------------------------------
(* The toy ECU: ecu_process and sil_virtualization_demo *)

\* messages on the command queue: {"throttle": t, "brake": b}, or "STOP"
Command(t, b) == [kind |-> "cmd", throttle |-> t, brake |-> b]
StopMsg       == [kind |-> "STOP", throttle |-> 0, brake |-> 0]

\* mp.Queue: put at the back, get from the front
QueuePut(q, x) == Append(q, x)
\* variant: get hands out the newest item
QueueFront_Newest(q) == q[Len(q)]
QueueFront(q)  == Head(q)
QueueRest(q)   == Tail(q)

\* variant: the worker integrates from the speed of the shared drive model
EcuPhysics_Shared(speed, cmd) ==
    LET accel     == 35 * cmd.throttle
        decel     == 60 * cmd.brake + 100
        speed_ms  == (Get(drive, "speed", 0) * 10) \div 36
        speed_ms2 == Max(0, speed_ms + (accel - decel) * 10)
    IN  (speed_ms2 * 36) \div 10

\* the physics of one command: accel, decel in 1e-3 m/s^2, the step is 0.1 s
EcuPhysics(speed, cmd) ==
    LET accel     == 35 * cmd.throttle
        decel     == 60 * cmd.brake + 100
        speed_ms  == (speed * 10) \div 36
        speed_ms2 == Max(0, speed_ms + (accel - decel) * 10)
    IN  (speed_ms2 * 36) \div 10

\* {"speed": round(speed, 2)}, in 1e-2 km/h
Response(speed) == [speed |-> RoundHalfEven(speed, SpeedUnit \div 100)]

\* variant: the sentinel is skipped (continue) and the loop goes on
ecu_process_Continue(w, q_cmd, q_resp) ==
    LET cmd == QueueFront(q_cmd)
    IN  IF cmd.kind = "STOP"
        THEN [worker |-> [pc |-> "get", speed |-> w.speed],
              q_cmd  |-> QueueRest(q_cmd),
              q_resp |-> q_resp,
              out    |-> << >>]
        ELSE LET speed == EcuPhysics(w.speed, cmd)
             IN  [worker |-> [pc |-> "get", speed |-> speed],
                  q_cmd  |-> QueueRest(q_cmd),
                  q_resp |-> QueuePut(q_resp, Response(speed)),
                  out    |-> << Response(speed) >>]

\* One iteration of the loop of ecu_process on the worker w with the queues
\* q_cmd (non-empty) and q_resp: the new worker, the new queues, and what was
\* put on q_resp in this iteration.
ecu_process(w, q_cmd, q_resp) ==
    LET cmd == QueueFront(q_cmd)
    IN  IF cmd.kind = "STOP"
        THEN [worker |-> [pc |-> "done", speed |-> w.speed],
              q_cmd  |-> QueueRest(q_cmd),
              q_resp |-> q_resp,
              out    |-> << >>]
        ELSE LET speed == EcuPhysics(w.speed, cmd)
             IN  [worker |-> [pc |-> "get", speed |-> speed],
                  q_cmd  |-> QueueRest(q_cmd),
                  q_resp |-> QueuePut(q_resp, Response(speed)),
                  out    |-> << Response(speed) >>]

\* the keys of the session that belong to the SIL demo, and the process behind them
Sil == [registered |-> registered, proc_gen |-> proc_gen, cmd_q |-> cmd_q,
        resp_q |-> resp_q, worker |-> worker, sent |-> sent, emitted |-> emitted]

SetSil(s) ==
    /\ registered' = s.registered
    /\ proc_gen' = s.proc_gen
    /\ cmd_q' = s.cmd_q
    /\ resp_q' = s.resp_q
    /\ worker' = s.worker
    /\ sent' = s.sent
    /\ emitted' = s.emitted

\* if "ecu_proc" not in st.session_state: two fresh queues and a started process
EnsureWorker(s) ==
    IF s.registered THEN s
    ELSE [registered |-> TRUE,
          proc_gen   |-> s.proc_gen + 1,
          cmd_q      |-> << >>,
          resp_q     |-> << >>,
          worker     |-> [pc |-> "get", speed |-> 0],
          sent       |-> << >>,
          emitted    |-> << >>]

\* st.session_state["cmd_q"].put(msg)
PutCommand(s, msg) ==
    [s EXCEPT !.cmd_q = QueuePut(s.cmd_q, msg), !.sent = Append(s.sent, msg)]

\* for k in ["ecu_proc", "cmd_q", "resp_q"]: del st.session_state[k]
DeleteKeys(s) == [s EXCEPT !.registered = FALSE]

\* variant: a timeout drops the worker and starts a new one
AfterTimeout_Restart(s) == EnsureWorker(DeleteKeys(s))

\* except Exception: st.error("No response from ECU (timeout)")
\* the session after the bounded wait has expired
AfterTimeout(s) == s

NoReport        == [kind |-> "none", speed |-> 0]
SpeedReport(r)  == [kind |-> "speed", speed |-> r.speed]
TimeoutReport   == [kind |-> "timeout", speed |-> 0]
StoppedReport   == [kind |-> "stopped", speed |-> 0]

-----------------------------------------------------------------------------
(* PredictiveMaintenance.compute_risk_score *)

\* A frame is None, or a list of rows [timestamp, voltage, temperature, cycles]:
\* timestamp in milliseconds, voltage in 1e-2 V, temperature in 1e-1 degC.
\* Scores, the drop rate and the mean temperature are in 1e-4 of their unit.
ScoreUnit == 10^4

NoneFrame   == [isNone |-> TRUE, rows |-> << >>]
Frame(rows) == [isNone |-> FALSE, rows |-> rows]

\* df.tail(12)
WindowSize == 12
\* variant: no window, the whole frame is scored
Tail12_All(rows) == rows

Tail12(rows) ==
    IF Len(rows) <= WindowSize THEN rows
    ELSE SubSeq(rows, Len(rows) - WindowSize + 1, Len(rows))

RECURSIVE SumTemperature(_, _)
SumTemperature(rows, n) ==
    IF n = 0 THEN 0 ELSE SumTemperature(rows, n - 1) + rows[n].temperature

RECURSIVE MaxCycles(_, _)
MaxCycles(rows, n) ==
    IF n = 1 THEN rows[1].cycles ELSE Max(MaxCycles(rows, n - 1), rows[n].cycles)

\* times = timestamp.astype("int64") // 1_000_000_000: whole seconds
EpochSeconds(ts) == ts \div 1000

\* variant: the magnitude of the slope counts, whatever its sign
VoltageDropRate_Abs(recent) ==
    LET n    == Len(recent)
        dv   == recent[n].voltage - recent[1].voltage
        dsec == EpochSeconds(recent[n].timestamp) - EpochSeconds(recent[1].timestamp)
    IN  IF n < 2
        THEN [inf |-> FALSE, val |-> Abs(dv) * 100]
        ELSE IF dsec = 0
        THEN [inf |-> dv # 0, val |-> 0]
        ELSE [inf |-> FALSE, val |-> MulDiv(Abs(dv), 360000, Abs(dsec))]

\* slope = (volts[-1] - volts[0]) / dt with dt = (times[-1] - times[0]) / 3600.0
\* for two or more rows and 1.0 for one; voltage_drop_rate = -slope if slope < 0
\* else 0.0. A zero dt divides by zero in numpy floats: the slope is -inf, +inf
\* or nan, and the drop rate is inf for -inf and 0.0 otherwise.
\* The result is [inf, val]: val in 1e-4 V/h when inf is FALSE.
VoltageDropRate(recent) ==
    LET n    == Len(recent)
        dv   == recent[n].voltage - recent[1].voltage
        dsec == EpochSeconds(recent[n].timestamp) - EpochSeconds(recent[1].timestamp)
    IN  IF n < 2
        THEN [inf |-> FALSE, val |-> IF dv < 0 THEN (-dv) * 100 ELSE 0]
        ELSE IF dsec = 0
        THEN [inf |-> dv < 0, val |-> 0]
        ELSE IF (dv < 0) # (dsec < 0)
        THEN [inf |-> FALSE, val |-> MulDiv(Abs(dv), 360000, Abs(dsec))]
        ELSE [inf |-> FALSE, val |-> 0]

\* variant: the voltage score without its cap
VScore_NoCap(rate) ==
    IF rate.inf THEN 40 * ScoreUnit ELSE rate.val * 40

\* v_score = min(voltage_drop_rate * 40.0, 40.0)
VScore(rate) ==
    IF rate.inf \/ rate.val >= ScoreUnit THEN 40 * ScoreUnit ELSE rate.val * 40

\* t_score = min(max((temp_mean - 25.0) / (60.0 - 25.0) * 35.0, 0.0), 35.0)
TScore(temp_mean) ==
    Min(Max(((temp_mean - 25 * ScoreUnit) * 35) \div (60 - 25), 0), 35 * ScoreUnit)

\* c_score = min(cycles / 200.0 * 25.0, 25.0)
CScore(cycles) == Min((cycles * 25 * ScoreUnit) \div 200, 25 * ScoreUnit)

\* return None
NoneResult ==
    [kind |-> "None", score |-> 0, rate |-> [inf |-> FALSE, val |-> 0],
     temp_mean |-> 0, cycles |-> 0, v_score |-> 0, t_score |-> 0, c_score |-> 0]

\* The returned (score, explanation) for a frame with at least one row;
\* temp_mean and the three scores of the explanation are rounded to 2 places
\* (1e-2), the drop rate to 4 places.
RiskOf(frame) ==
    LET recent    == Tail12(frame.rows)
        n         == Len(recent)
        rate      == VoltageDropRate(recent)
        temp_mean == (SumTemperature(recent, n) * (ScoreUnit \div 10)) \div n
        cycles    == MaxCycles(recent, n)
        v_score   == VScore(rate)
        t_score   == TScore(temp_mean)
        c_score   == CScore(cycles)
        risk      == Min(Max(v_score + t_score + c_score, 0), 100 * ScoreUnit)
    IN  [kind      |-> "score",
         score     |-> RoundHalfEven(risk, ScoreUnit),
         rate      |-> rate,
         temp_mean |-> RoundHalfEven(temp_mean, ScoreUnit \div 100),
         cycles    |-> cycles,
         v_score   |-> RoundHalfEven(v_score, ScoreUnit \div 100),
         t_score   |-> RoundHalfEven(t_score, ScoreUnit \div 100),
         c_score   |-> RoundHalfEven(c_score, ScoreUnit \div 100)]

\* the call ends in an exception
RaisedResult ==
    [kind |-> "raised", score |-> 0, rate |-> [inf |-> FALSE, val |-> 0],
     temp_mean |-> 0, cycles |-> 0, v_score |-> 0, t_score |-> 0, c_score |-> 0]

\* variant: no guard; df.tail of None and times[-1] of an empty frame raise
compute_risk_score_NoGuard(frame) ==
    IF frame.isNone \/ frame.rows = << >>
    THEN RaisedResult
    ELSE RiskOf(frame)

\* if df is None or df.empty: return None
compute_risk_score(frame) ==
    IF frame.isNone \/ frame.rows = << >>
    THEN NoneResult
    ELSE RiskOf(frame)

-----------------------------------------------------------------------------
(* TelemetrySource.simulate *)
(* Voltage, current, soc and temperature are in units of 1e-3; timestamps   *)
(* are in milliseconds.  The generator behind np.random is a deterministic  *)
(* function of its state; a small congruential generator stands for it, and *)
(* a draw is a function of the state it consumes.                           *)

RngModulus == 65537

\* the state of the generator when the process starts (seeded by the system)
EntropyStates == {1, 2}

\* seed=None, and seed=<an integer>
NoSeed      == [given |-> FALSE, value |-> 0]
SeedOf(v)   == [given |-> TRUE, value |-> v]

\* np.random.seed(int(seed))
SeedState(v) == v % RngModulus

\* the generator moves on by one draw
RngAdvance(state) == (75 * state + 74) % RngModulus

\* if seed is not None: np.random.seed(int(seed))
RngStart(seed, state) == IF seed.given THEN SeedState(seed.value) ELSE state

\* the states consumed by the next n draws, in order
RECURSIVE RngStream(_, _)
RngStream(state, n) ==
    IF n = 0 THEN << >>
    ELSE IF n = 1 THEN << RngAdvance(state) >>
    ELSE LET half  == n \div 2
             first == RngStream(state, half)
         IN  first \o RngStream(first[half], n - half)

\* one draw of np.random.normal(mu, sigma), within three sigma
Normal(state, mu, sigma) == mu + (sigma * ((state % 61) - 30)) \div 10

\* one draw of np.random.rand(), in [0, 1)
Rand(state) == state % 1000

\* np.clip(x, lo, hi)
Clip(x, lo, hi) == Max(lo, Min(hi, x))

\* np.linspace(0, stop, periods)[k - 1]
Linspace(stop, periods, k) == (stop * (k - 1)) \div (periods - 1)

\* periods = max(2, int(hours * 60 / freq_minutes))
Periods(hours, freq_minutes) == Max(2, (hours * 60) \div freq_minutes)

\* variant: the list is built in range order, newest first
SampleTime_Newest(clock, freq_minutes, periods, k) ==
    clock - freq_minutes * 60000 * (k - 1)

\* ts = [now - timedelta(minutes=freq_minutes * i) for i in reversed(range(periods))]
\* the k-th element, k = 1..periods
SampleTime(clock, freq_minutes, periods, k) ==
    clock - freq_minutes * 60000 * (periods - k)

\* np.cumsum(np.abs(current))[k - 1]
RECURSIVE SumAbs(_, _, _)
SumAbs(current, lo, hi) ==
    IF lo > hi THEN 0
    ELSE IF lo = hi THEN Abs(current[lo])
    ELSE LET mid == (lo + hi) \div 2
         IN  SumAbs(current, lo, mid) + SumAbs(current, mid + 1, hi)

CumAbs(current, k) == SumAbs(current, 1, k)

\* The body of simulate: the frame it returns and the generator it leaves.
\* clock is the value of datetime.now() read by the call.
SimulateResult(hours, freq_minutes, seed, state, clock) ==
    LET periods    == Periods(hours, freq_minutes)
        start      == RngStart(seed, state)
        draws      == RngStream(start, 3 * periods + 1)
        noise_v    == [k \in 1..periods |-> Normal(draws[k], 0, 200)]
        trend_gain == Rand(draws[periods + 1])
        temp_noise == [k \in 1..periods |-> Normal(draws[periods + 1 + k], 0, 600)]
        current    == [k \in 1..periods |->
                          Clip(Normal(draws[2 * periods + 1 + k], 5000, 2000),
                               -50000, 100000)]
        soc        == [k \in 1..periods |->
                          Clip(100000 - CumAbs(current, k) \div 1000, 10000, 100000)]
        cycles     == [k \in 1..periods |->
                          Clip(CumAbs(current, k) \div 1000000, 0, 200)]
        voltage    == [k \in 1..periods |->
                          400000 + Linspace(-5000, periods, k) + noise_v[k]
                          - cycles[k] * 10]
        temperature == [k \in 1..periods |->
                          30000 + (Linspace(8000, periods, k) * trend_gain) \div 1000
                          + temp_noise[k] + cycles[k] * 20]
    IN  [df  |-> [k \in 1..periods |->
                     [timestamp   |-> SampleTime(clock, freq_minutes, periods, k),
                      voltage     |-> voltage[k],
                      current     |-> current[k],
                      temperature |-> temperature[k],
                      soc         |-> soc[k],
                      cycles      |-> cycles[k]]],
         rng |-> draws[3 * periods + 1]]

-----------------------------------------------------------------------------
(* TelemetrySource.read_can_csv *)
(* A file is its header (the set of column names) and the texts of the      *)
(* timestamp cells of its rows, each a sequence of characters.  The texts   *)
(* are date-times written as YYYY-MM-DDTHH:MM:SS or no date at all; a parsed *)
(* timestamp is in seconds since 1970-01-01T00:00:00.                        *)

Digits == <<"0","1","2","3","4","5","6","7","8","9">>

\* the value of a digit character, -1 for any other character
DigitValue(c) == IndexIn(c, Digits) - 1

\* the number written in s[i..j], -1 if a character is not a digit
RECURSIVE NumberAt(_, _, _)
NumberAt(s, i, j) ==
    IF DigitValue(s[j]) < 0 THEN -1
    ELSE IF i = j THEN DigitValue(s[j])
    ELSE LET high == NumberAt(s, i, j - 1)
         IN  IF high < 0 THEN -1 ELSE high * 10 + DigitValue(s[j])

IsLeapYear(y) == (y % 4 = 0 /\ y % 100 # 0) \/ y % 400 = 0

DaysInMonth(y, m) ==
    IF m = 2 THEN (IF IsLeapYear(y) THEN 29 ELSE 28)
    ELSE IF m \in {4, 6, 9, 11} THEN 30 ELSE 31

\* days from 1970-01-01 to the civil date y-m-d
DaysFromCivil(y, m, d) ==
    LET yy  == IF m <= 2 THEN y - 1 ELSE y
        era == yy \div 400
        yoe == yy - era * 400
        mp  == (m + 9) % 12
        doy == (153 * mp + 2) \div 5 + d - 1
        doe == yoe * 365 + yoe \div 4 - yoe \div 100 + doy
    IN  era * 146097 + doe - 719468

Unparseable == [ok |-> FALSE, seconds |-> 0]

\* pd.to_datetime on one cell
ParseTimestamp(s) ==
    IF Len(s) # 19 THEN Unparseable
    ELSE IF ~(s[5] = "-" /\ s[8] = "-" /\ s[11] = "T" /\ s[14] = ":" /\ s[17] = ":")
    THEN Unparseable
    ELSE LET y  == NumberAt(s, 1, 4)
             m  == NumberAt(s, 6, 7)
             d  == NumberAt(s, 9, 10)
             hh == NumberAt(s, 12, 13)
             mm == NumberAt(s, 15, 16)
             ss == NumberAt(s, 18, 19)
         IN  IF y < 0 \/ m < 1 \/ m > 12 \/ d < 1 \/ hh < 0 \/ hh > 23
                \/ mm < 0 \/ mm > 59 \/ ss < 0 \/ ss > 59
             THEN Unparseable
             ELSE IF d > DaysInMonth(y, m) THEN Unparseable
             ELSE [ok |-> TRUE,
                   seconds |-> DaysFromCivil(y, m, d) * 86400 + hh * 3600 + mm * 60 + ss]

CsvFile(header, stamps) == [header |-> header, stamps |-> stamps]

\* the call ends in an exception: no frame is returned
CsvRaised == [kind |-> "raised", columns |-> {}, timestamp |-> << >>]

\* df = pd.read_csv(fileobj); df["timestamp"] = pd.to_datetime(df["timestamp"]);
\* return df.  A header without "timestamp" raises KeyError, a cell that
\* cannot be parsed raises in to_datetime.
read_can_csv(file) ==
    IF "timestamp" \notin file.header THEN CsvRaised
    ELSE IF \E k \in 1..Len(file.stamps) : ~ParseTimestamp(file.stamps[k]).ok
    THEN CsvRaised
    ELSE [kind      |-> "frame",
          columns   |-> file.header,
          timestamp |-> [k \in 1..Len(file.stamps) |->
                            ParseTimestamp(file.stamps[k]).seconds]]

-----------------------------------------------------------------------------
(* Inputs *)

\* slider positions of the driving dashboard
ThrottleInputs == {0, 10, 100}
BrakeInputs    == {0, 100}
\* st.selectbox("Step duration (s)", [0.2, 0.5, 1.0]), in tenths of a second
DtInputs       == {2, 10}
\* st.selectbox("Driving mode", ["Normal", "Eco", "Sport", "Snow", "Regen"])
ModeInputs     == FiveModes
\* st.number_input("Steps", min_value=1, max_value=200)
RunStepsInputs == {2, 3}
LongRunStepsInputs == {10, 200}

\* arguments a direct caller of simulate_drive_step may pass
AnyThrottleInputs == {-50, 0, 100}
AnyBrakeInputs    == {0, 100, 150}
AnyModeInputs     == {NormalStr, <<"e","c","o">>, <<"S","P","O","R","T">>,
                      <<"t","u","r","b","o">>}

\* a car left to coast: the brake, the mode, and the lengths of the runs
CoastBrakeInputs == {0, 100}
CoastModeInputs  == {NormalStr, RegenStr}
CoastStepsInputs == {5, 20}

\* slider positions on both sides of "throttle_pct < 20" and "brake_pct > 10"
EdgeThrottleInputs == {19, 20}
EdgeBrakeInputs    == {10, 11}

\* the ECU monitor is watched while driving in Normal or Sport
ViewThrottleInputs == {0, 100}
ViewModeInputs     == {NormalStr, SportStr}

\* sliders of the SIL page
SilThrottleInputs == {0, 100}
SilBrakeInputs    == {0, 50}

\* rows of a telemetry frame: the time since the previous row (ms), the
\* voltage (1e-2 V), and temperature (1e-1 degC) with cycle count
RowGapInputs     == {400, 1800000}
VoltageInputs    == {39500, 39999, 40000}
TempCycleInputs  == {<<250, 0>>, <<700, 300>>}
\* lengths of a series loaded as a whole: the window of df.tail(12), and one more
SeriesLengthInputs == {12, 13}

\* arguments of TelemetrySource.simulate: st.slider("Hours", 6, 168) and a
\* direct caller's single hour; st.selectbox("Sample interval (min)", [5,15,30,60]);
\* st.number_input("Seed", value=42), seed=99 of the mock publisher, seed=None
\* as <<hours, freq_minutes, seed>>
SimArgInputs == { <<6, 5, SeedOf(99)>>, <<6, 60, SeedOf(42)>>, <<1, 60, SeedOf(42)>>,
                  <<6, 60, NoSeed>>, <<1, 60, NoSeed>> }

\* uploaded files: the header ...
SixColumns == {"timestamp", "voltage", "current", "temperature", "soc", "cycles"}
CsvHeaderInputs == { SixColumns,
                     SixColumns \ {"voltage"},
                     SixColumns \ {"timestamp"},
                     {"timestamp", "speed"} }
\* ... and the texts of the timestamp cells
StampInputs == { <<"1","9","7","0","-","0","1","-","0","1","T","0","0",":","0","0",":","0","5">>,
                 <<"2","0","2","4","-","0","2","-","2","9","T","1","2",":","3","0",":","1","5">>,
                 <<"2","0","2","4","-","0","2","-","3","0","T","1","2",":","3","0",":","1","5">>,
                 <<"s","o","o","n">> }

-----------------------------------------------------------------------------
(* Initial state: a fresh session *)

Init ==
    /\ drive = << >>
    /\ drive_log = << >>
    /\ now = 0
    /\ produced = << >>
    /\ controls = DefaultControls
    /\ snaps = << >>
    /\ registered = FALSE
    /\ proc_gen = 0
    /\ cmd_q = << >>
    /\ resp_q = << >>
    /\ worker = [pc |-> "none", speed |-> 0]
    /\ caller = "idle"
    /\ report = NoReport
    /\ sent = << >>
    /\ emitted = << >>
    /\ df = NoneFrame
    /\ scored = << >>
    /\ rng \in EntropyStates
    /\ sims = << >>
    /\ reads = << >>
    /\ op = "init"

-----------------------------------------------------------------------------
(* The driving dashboard *)

\* the "Step" button
Step ==
    /\ Len(produced) < MaxSteps
    /\ \E t \in ThrottleInputs, b \in BrakeInputs, dt \in DtInputs, m \in ModeInputs :
          /\ SetWorld(simulate_drive_step(World, t, b, dt, m))
          /\ controls' = Controls(m, t, b, controls.steps, dt)
    /\ snaps' = << >>
    /\ op' = "step"
    /\ UNCHANGED <<silVars, riskVars, teleVars>>

\* the "Run" button
Run ==
    /\ \E n \in RunStepsInputs :
          /\ Len(produced) + n <= MaxSteps
          /\ \E t \in ThrottleInputs, b \in BrakeInputs, dt \in DtInputs, m \in ModeInputs :
                /\ SetWorld(RunLoop(World, n, t, b, dt, m))
                /\ controls' = Controls(m, t, b, n, dt)
    /\ snaps' = << >>
    /\ op' = "run"
    /\ UNCHANGED <<silVars, riskVars, teleVars>>

\* The long run: a driver who opens a fresh session with "Run" of ten
\* one-second steps at full throttle in Sport, and, past the cruise speed,
\* keeps pressing "Run" with full throttle against 80 % brake in Sport, where
\* acceleration and deceleration cancel.
LongAccelerate ==
    /\ Len(produced) = 0
    /\ 10 <= MaxLongSteps
    /\ SetWorld(RunLoop(World, 10, 100, 0, 10, SportStr))
    /\ controls' = Controls(SportStr, 100, 0, 10, 10)
    /\ snaps' = << >>
    /\ op' = "run"
    /\ UNCHANGED <<silVars, riskVars, teleVars>>

LongHold ==
    /\ Get(drive, "speed", 0) >= CruiseKmh * SpeedUnit
    /\ \E n \in LongRunStepsInputs :
          /\ Len(produced) + n <= MaxLongSteps
          /\ SetWorld(RunLoop(World, n, 100, 80, 10, SportStr))
          /\ controls' = Controls(SportStr, 100, 80, n, 10)
    /\ snaps' = << >>
    /\ op' = "run"
    /\ UNCHANGED <<silVars, riskVars, teleVars>>

\* With the battery at its floor the driver closes the throttle and brakes
\* fully, "Run" of ten one-second steps, which brings the car to rest ...
LongStop ==
    /\ drive # << >>
    /\ drive.soc = 5 * SocUnit
    /\ drive.speed >= CruiseKmh * SpeedUnit
    /\ Len(produced) + 10 <= MaxLongSteps
    /\ SetWorld(RunLoop(World, 10, 0, 100, 10, SportStr))
    /\ controls' = Controls(SportStr, 0, 100, 10, 10)
    /\ snaps' = << >>
    /\ op' = "run"
    /\ UNCHANGED <<silVars, riskVars, teleVars>>

\* ... and then presses "Step" once, with any setting of the widgets
LongRestart ==
    /\ drive # << >>
    /\ drive.speed = 0
    /\ drive.soc = 5 * SocUnit
    /\ op = "run"
    /\ Len(produced) < MaxLongSteps
    /\ \E t \in ThrottleInputs, b \in BrakeInputs, dt \in DtInputs, m \in ModeInputs :
          /\ SetWorld(simulate_drive_step(World, t, b, dt, m))
          /\ controls' = Controls(m, t, b, controls.steps, dt)
    /\ snaps' = << >>
    /\ op' = "step"
    /\ UNCHANGED <<silVars, riskVars, teleVars>>

Next == Step \/ Run \/ LongAccelerate \/ LongHold \/ LongStop \/ LongRestart

Spec == Init /\ [][Next]_vars

\* A car that is left to coast: two steps of a fifth of a second at full
\* throttle in Sport, then the throttle slider is set to 0 and stays there.
CoastAccelerate ==
    /\ Len(produced) = 0
    /\ SetWorld(RunLoop(World, 2, 100, 0, 2, SportStr))
    /\ controls' = Controls(SportStr, 100, 0, 2, 2)
    /\ snaps' = << >>
    /\ op' = "run"
    /\ UNCHANGED <<silVars, riskVars, teleVars>>

\* the throttle is closed, brake, mode and step duration are chosen, "Step"
CoastRelease ==
    /\ Len(produced) > 0
    /\ controls.throttle # 0
    /\ \E b \in CoastBrakeInputs, dt \in DtInputs, m \in CoastModeInputs :
          /\ SetWorld(simulate_drive_step(World, 0, b, dt, m))
          /\ controls' = Controls(m, 0, b, controls.steps, dt)
    /\ snaps' = << >>
    /\ op' = "step"
    /\ UNCHANGED <<silVars, riskVars, teleVars>>

\* the car has not yet been at rest for two rows
CoastGoesOn ==
    /\ Len(produced) > 0
    /\ controls.throttle = 0
    /\ drive.speed > 0 \/ produced[Len(produced) - 1].speed > 0

\* "Step" again with the widgets as they are
CoastOn ==
    /\ CoastGoesOn
    /\ Len(produced) < MaxCoastSteps
    /\ SetWorld(simulate_drive_step(World, 0, controls.brake, controls.dt, controls.mode))
    /\ snaps' = << >>
    /\ op' = "step"
    /\ UNCHANGED <<controls, silVars, riskVars, teleVars>>

\* "Run" with the widgets as they are
CoastRun ==
    /\ CoastGoesOn
    /\ \E n \in CoastStepsInputs :
          /\ Len(produced) + n <= MaxCoastSteps
          /\ SetWorld(RunLoop(World, n, 0, controls.brake, controls.dt, controls.mode))
          /\ controls' = [controls EXCEPT !.steps = n]
    /\ snaps' = << >>
    /\ op' = "run"
    /\ UNCHANGED <<silVars, riskVars, teleVars>>

NextCoast == CoastAccelerate \/ CoastRelease \/ CoastOn \/ CoastRun

SpecCoast == Init /\ [][NextCoast]_vars

\* "Step" pressed with the sliders next to the thresholds of the regeneration
\* rule, half a second per step, in any of the five modes
EdgeStep ==
    /\ Len(produced) < MaxEdgeSteps
    /\ \E t \in EdgeThrottleInputs, b \in EdgeBrakeInputs, m \in ModeInputs :
          /\ SetWorld(simulate_drive_step(World, t, b, 5, m))
          /\ controls' = Controls(m, t, b, controls.steps, 5)
    /\ snaps' = << >>
    /\ op' = "step"
    /\ UNCHANGED <<silVars, riskVars, teleVars>>

NextEdge == EdgeStep

SpecEdge == Init /\ [][NextEdge]_vars

\* simulate_drive_step called with arguments outside the dashboard's ranges
AnyStep ==
    /\ Len(produced) < MaxSteps
    /\ \E t \in AnyThrottleInputs, b \in AnyBrakeInputs, dt \in DtInputs,
          m \in AnyModeInputs :
          /\ SetWorld(simulate_drive_step(World, t, b, dt, m))
          /\ controls' = Controls(m, t, b, controls.steps, dt)
    /\ snaps' = << >>
    /\ op' = "step"
    /\ UNCHANGED <<silVars, riskVars, teleVars>>

NextAny == AnyStep

SpecAny == Init /\ [][NextAny]_vars

-----------------------------------------------------------------------------
(* The ECU monitor *)

ViewStep ==
    /\ Len(produced) < MaxViewSteps
    /\ \E t \in ViewThrottleInputs, m \in ViewModeInputs :
          /\ SetWorld(simulate_drive_step(World, t, 0, 10, m))
          /\ controls' = Controls(m, t, 0, controls.steps, 10)
    /\ snaps' = << >>
    /\ op' = "step"
    /\ UNCHANGED <<silVars, riskVars, teleVars>>

\* a page that calls compute_ecu_snapshot() is rendered
Snapshot ==
    /\ Len(snaps) < MaxSnapshots
    /\ snaps' = Append(snaps, [drive |-> SnapshotDrive,
                               idx   |-> SnapshotIndex,
                               out   |-> compute_ecu_snapshot])
    /\ op' = "snapshot"
    /\ UNCHANGED <<driveVars, silVars, riskVars, teleVars>>

NextView == ViewStep \/ Snapshot

\* the ECU monitor is opened now and then during the long run
NextHealth == LongAccelerate \/ LongHold \/ Snapshot

SpecHealth == Init /\ [][NextHealth]_vars

SpecView == Init /\ [][NextView]_vars

-----------------------------------------------------------------------------
(* The SIL page and the worker process *)

CommandsSent == Len(SelectSeq(sent, LAMBDA c : c.kind = "cmd"))

\* a button of the page can be served: the worker exists or may be started
CanServe == caller = "idle" /\ (registered \/ proc_gen < MaxProcs)

\* the page is rendered with no button pressed
SilVisit ==
    /\ caller = "idle"
    /\ ~registered
    /\ proc_gen < MaxProcs
    /\ SetSil(EnsureWorker(Sil))
    /\ op' = "visit"
    /\ UNCHANGED <<caller, report, driveVars, snaps, riskVars, teleVars>>

\* "Send command to ECU (SIL)": the put, up to the blocking get
SilSend ==
    /\ CanServe
    /\ registered => CommandsSent < MaxCmds
    /\ \E t \in SilThrottleInputs, b \in SilBrakeInputs :
          SetSil(PutCommand(EnsureWorker(Sil), Command(t, b)))
    /\ caller' = "await"
    /\ op' = "send"
    /\ UNCHANGED <<report, driveVars, snaps, riskVars, teleVars>>

\* resp_q.get(timeout=1.0) returns a response
SilRecv ==
    /\ caller = "await"
    /\ resp_q # << >>
    /\ report' = SpeedReport(QueueFront(resp_q))
    /\ resp_q' = QueueRest(resp_q)
    /\ caller' = "idle"
    /\ op' = "recv"
    /\ UNCHANGED <<registered, proc_gen, cmd_q, worker, sent, emitted,
                   driveVars, snaps, riskVars, teleVars>>

\* resp_q.get(timeout=1.0) raises after one second with nothing to read
SilTimeout ==
    /\ caller = "await"
    /\ resp_q = << >>
    /\ SetSil(AfterTimeout(Sil))
    /\ report' = TimeoutReport
    /\ caller' = "idle"
    /\ op' = "timeout"
    /\ UNCHANGED <<driveVars, snaps, riskVars, teleVars>>

\* "Terminate ECU process (debug)": the put of the sentinel, up to the join
SilTerminate ==
    /\ CanServe
    /\ SetSil(PutCommand(EnsureWorker(Sil), StopMsg))
    /\ caller' = "join"
    /\ op' = "terminate"
    /\ UNCHANGED <<report, driveVars, snaps, riskVars, teleVars>>

\* join() returns once the process has exited; the keys are deleted
SilJoined ==
    /\ caller = "join"
    /\ worker.pc = "done"
    /\ SetSil(DeleteKeys(Sil))
    /\ report' = StoppedReport
    /\ caller' = "idle"
    /\ op' = "joined"
    /\ UNCHANGED <<driveVars, snaps, riskVars, teleVars>>

\* the worker takes the next command off its queue
WorkerStep ==
    /\ worker.pc = "get"
    /\ cmd_q # << >>
    /\ LET r == ecu_process(worker, cmd_q, resp_q)
       IN  /\ worker' = r.worker
           /\ cmd_q' = r.q_cmd
           /\ resp_q' = r.q_resp
           /\ emitted' = emitted \o r.out
    /\ op' = "worker"
    /\ UNCHANGED <<registered, proc_gen, caller, report, sent,
                   driveVars, snaps, riskVars, teleVars>>

\* "Send command to ECU (SIL)" with the throttle slider at 100 and the brake
\* slider at 0, again and again
RampSend ==
    /\ caller = "idle"
    /\ registered \/ proc_gen = 0
    /\ CommandsSent < MaxRampCmds
    /\ SetSil(PutCommand(EnsureWorker(Sil), Command(100, 0)))
    /\ caller' = "await"
    /\ op' = "send"
    /\ UNCHANGED <<report, driveVars, snaps, riskVars, teleVars>>

NextRamp == RampSend \/ SilRecv \/ SilTimeout \/ WorkerStep

SpecRamp == Init /\ [][NextRamp]_vars

\* A session that goes back and forth between the driving dashboard and the
\* SIL page.  The script runs one page at a time, so "Step" is pressed only
\* while no SIL button is being served; the worker process runs all the time.
MixStep ==
    /\ caller = "idle"
    /\ Len(produced) < MaxMixSteps
    /\ SetWorld(simulate_drive_step(World, 100, 0, 10, SportStr))
    /\ controls' = Controls(SportStr, 100, 0, controls.steps, 10)
    /\ snaps' = << >>
    /\ op' = "step"
    /\ UNCHANGED <<silVars, riskVars, teleVars>>

MixSend ==
    /\ CanServe
    /\ CommandsSent < MaxMixCmds
    /\ \E t \in SilThrottleInputs :
          SetSil(PutCommand(EnsureWorker(Sil), Command(t, 0)))
    /\ caller' = "await"
    /\ op' = "send"
    /\ UNCHANGED <<report, driveVars, snaps, riskVars, teleVars>>

NextMix == MixStep \/ MixSend \/ SilRecv \/ SilTimeout \/ SilTerminate
           \/ SilJoined \/ WorkerStep

SpecMix == Init /\ [][NextMix]_vars

NextSil == SilVisit \/ SilSend \/ SilRecv \/ SilTimeout \/ SilTerminate
           \/ SilJoined \/ WorkerStep

\* the operating system keeps scheduling the worker process, and the script
\* blocked in join() goes on as soon as the process has exited
SpecSil == Init /\ [][NextSil]_vars /\ WF_vars(WorkerStep) /\ WF_vars(SilJoined)

-----------------------------------------------------------------------------
(* Predictive maintenance *)

\* a source that yields an empty frame (pd.DataFrame())
LoadEmpty ==
    /\ df.isNone
    /\ df' = Frame(<< >>)
    /\ scored' = << >>
    /\ op' = "load"
    /\ UNCHANGED <<driveVars, snaps, silVars, teleVars>>

\* a source that yields one more row, not earlier than the last
LoadRow ==
    /\ Len(df.rows) < MaxRows
    /\ \E gap \in RowGapInputs, v \in VoltageInputs, tc \in TempCycleInputs :
          LET last == IF df.rows = << >> THEN 0
                      ELSE df.rows[Len(df.rows)].timestamp + gap
          IN  df' = Frame(Append(df.rows, [timestamp   |-> last,
                                           voltage     |-> v,
                                           temperature |-> tc[1],
                                           cycles      |-> tc[2]]))
    /\ scored' = << >>
    /\ op' = "load"
    /\ UNCHANGED <<driveVars, snaps, silVars, teleVars>>

\* a source that yields a whole series at once: the first row, the rows in
\* between and the last row each with their voltage, at a fixed interval
LoadSeries ==
    /\ df.isNone
    /\ \E n \in SeriesLengthInputs, gap \in RowGapInputs, tc \in TempCycleInputs,
          v_first \in VoltageInputs, v_mid \in VoltageInputs, v_last \in VoltageInputs :
          df' = Frame([k \in 1..n |->
                         [timestamp   |-> (k - 1) * gap,
                          voltage     |-> IF k = 1 THEN v_first
                                          ELSE IF k = n THEN v_last ELSE v_mid,
                          temperature |-> tc[1],
                          cycles      |-> tc[2]]])
    /\ scored' = << >>
    /\ op' = "load"
    /\ UNCHANGED <<driveVars, snaps, silVars, teleVars>>

\* pm.compute_risk_score(df)
Score ==
    /\ Len(scored) < MaxScores
    /\ scored' = Append(scored, compute_risk_score(df))
    /\ op' = "score"
    /\ UNCHANGED <<df, driveVars, snaps, silVars, teleVars>>

NextRisk == LoadEmpty \/ LoadRow \/ LoadSeries \/ Score

SpecRisk == Init /\ [][NextRisk]_vars

-----------------------------------------------------------------------------
(* Telemetry sources *)

\* time passes between two calls
TimePasses ==
    /\ now < MaxTicks * TickMs
    /\ now' = now + TickMs
    /\ op' = "tick"
    /\ UNCHANGED <<drive, drive_log, produced, controls, snaps, silVars, riskVars,
                   teleVars>>

\* a call of TelemetrySource.simulate(hours, freq_minutes, seed)
Simulate ==
    /\ Len(sims) < MaxSims
    /\ \E args \in SimArgInputs :
          LET hours        == args[1]
              freq_minutes == args[2]
              seed         == args[3]
              r == SimulateResult(hours, freq_minutes, seed, rng, now)
          IN  /\ rng' = r.rng
              /\ sims' = Append(sims, [hours |-> hours, freq_minutes |-> freq_minutes,
                                       seed |-> seed, at |-> now, out |-> r.df])
    /\ op' = "simulate"
    /\ UNCHANGED <<driveVars, snaps, silVars, riskVars, reads>>

\* the files of at most n rows
RECURSIVE StampSeqs(_)
StampSeqs(n) ==
    IF n = 0 THEN { << >> }
    ELSE LET shorter == StampSeqs(n - 1)
         IN  shorter \cup { Append(q, t) : q \in shorter, t \in StampInputs }

\* "Load CSV": a file is uploaded and read
ReadCsv ==
    /\ Len(reads) < MaxReads
    /\ \E header \in CsvHeaderInputs, stamps \in StampSeqs(MaxCsvRows) :
          LET file == CsvFile(header, stamps)
          IN  reads' = Append(reads, [file |-> file, out |-> read_can_csv(file)])
    /\ op' = "read"
    /\ UNCHANGED <<driveVars, snaps, silVars, riskVars, rng, sims>>

NextCsv == ReadCsv

SpecCsv == Init /\ [][NextCsv]_vars

NextSim == TimePasses \/ Simulate

SpecSim == Init /\ [][NextSim]_vars

-----------------------------------------------------------------------------
(* Claims *)

HasDriven == DOMAIN drive # {}

\* C1: after any sequence of drive steps from the default state with throttle
\* and brake in [0,100], dt > 0 and one of the five modes, the stored state
\* has speed >= 0, 5 <= soc <= 100 and 0 <= cycles <= 1000.
C1_ClampInvariants ==
    HasDriven =>
        /\ drive.speed >= 0
        /\ 5 * SocUnit <= drive.soc /\ drive.soc <= 100 * SocUnit
        /\ 0 <= drive.cycles /\ drive.cycles <= 1000

\* the floor of soc and the cap of cycles are both reached while moving
C1_Witness ==
    /\ HasDriven
    /\ drive.soc = 5 * SocUnit
    /\ drive.cycles = 1000
    /\ drive.speed > 0

\* C2: after n drive steps the log holds min(n, 2000) rows, and they are the
\* most recent rows in the order they were produced.
C2_RingLog ==
    /\ Len(drive_log) = Min(Len(produced), LogCapacity)
    /\ drive_log = SubSeq(produced, Len(produced) - Len(drive_log) + 1, Len(produced))

\* more than 2000 steps were made and the oldest rows are gone
C2_Witness ==
    /\ Len(produced) > LogCapacity
    /\ Len(drive_log) = LogCapacity
    /\ drive_log[1] # produced[1]
    /\ drive_log[LogCapacity] = produced[Len(produced)]

IsCmd(c) == c.kind = "cmd"

\* the speed of a fresh worker after the first k of the commands cmds
RECURSIVE SpeedAfter(_, _)
SpeedAfter(cmds, k) ==
    IF k = 0 THEN 0 ELSE EcuPhysics(SpeedAfter(cmds, k - 1), cmds[k])

\* C3: the worker consumes commands in arrival order and emits exactly one
\* response per command: the k-th response is the speed computed from the
\* first k commands, and none is lost, duplicated or reordered.
C3_FifoResponses ==
    LET consumed == SubSeq(sent, 1, Len(sent) - Len(cmd_q))
    IN  /\ cmd_q = SubSeq(sent, Len(sent) - Len(cmd_q) + 1, Len(sent))
        /\ Len(emitted) = Len(SelectSeq(consumed, IsCmd))
        /\ \A k \in 1..Len(emitted) :
              emitted[k] = Response(SpeedAfter(SelectSeq(sent, IsCmd), k))
        /\ Len(resp_q) <= Len(emitted)
        /\ resp_q = SubSeq(emitted, Len(emitted) - Len(resp_q) + 1, Len(emitted))

\* three commands were answered, two of the answers still wait on the channel
C3_Witness ==
    /\ Len(emitted) = 3
    /\ Len(resp_q) = 2
    /\ emitted[1] # emitted[2]
    /\ emitted[3].speed > 0

\* C4: once the sentinel is on the command channel nothing is submitted after
\* it; the worker answers every command submitted before it, exits without a
\* response for the sentinel, and the caller's join returns.
C4_StopDrainsThenExits ==
    /\ [](\A i \in 1..Len(sent) : sent[i].kind = "STOP" => i = Len(sent))
    /\ [](worker.pc = "done" =>
            /\ cmd_q = << >>
            /\ sent # << >> /\ sent[Len(sent)].kind = "STOP"
            /\ Len(emitted) = Len(sent) - 1)
    /\ [][(worker.pc = "done" /\ proc_gen' = proc_gen)
             => (worker' = worker /\ emitted' = emitted /\ sent' = sent)]_vars
    /\ (caller = "join" ~> caller = "idle")

\* the worker has exited on the sentinel after answering two commands, one of
\* them never read by the caller
C4_Witness ==
    /\ worker.pc = "done"
    /\ caller = "join"
    /\ Len(emitted) = 2
    /\ Len(resp_q) = 1

\* C5: a timeout of the bounded wait is reported as "no response" and the
\* caller goes on: the worker is not restarted or replaced, and the worker
\* handle and both channels stay registered with their contents.
C5_TimeoutKeepsWorker ==
    [][op' = "timeout" =>
          /\ report' = TimeoutReport
          /\ caller' = "idle"
          /\ registered /\ registered'
          /\ proc_gen' = proc_gen
          /\ worker' = worker
          /\ cmd_q' = cmd_q
          /\ resp_q' = resp_q]_vars

\* a wait has timed out while the worker still holds the command
C5_Witness ==
    /\ op = "timeout"
    /\ report = TimeoutReport
    /\ registered
    /\ worker.pc = "get"
    /\ cmd_q # << >>

\* C6: for a non-empty frame the score is an integer in [0,100], the voltage
\* score is in [0,40], the temperature score in [0,35], the cycle score at
\* most 25, and the same frame always yields the same result.
C6_ScoreBounds ==
    (~df.isNone /\ df.rows # << >>) =>
        \A i \in 1..Len(scored) :
            /\ scored[i].kind = "score"
            /\ 0 <= scored[i].score /\ scored[i].score <= 100
            /\ 0 <= scored[i].v_score /\ scored[i].v_score <= 40 * 100
            /\ 0 <= scored[i].t_score /\ scored[i].t_score <= 35 * 100
            /\ scored[i].c_score <= 25 * 100
            /\ scored[i] = scored[1]

\* a frame scored twice, with all three sub-scores at their caps
C6_Witness ==
    /\ Len(df.rows) >= 2
    /\ Len(scored) = 2
    /\ scored[2].score = 100
    /\ scored[2].v_score = 40 * 100
    /\ scored[2].t_score = 35 * 100
    /\ scored[2].c_score = 25 * 100

\* C7: on a None or empty frame compute_risk_score returns None, raises
\* nothing and computes no score.
C7_EmptyIsNone ==
    (df.isNone \/ df.rows = << >>) =>
        \A i \in 1..Len(scored) : scored[i] = NoneResult

\* an empty frame was scored
C7_Witness ==
    /\ ~df.isNone
    /\ df.rows = << >>
    /\ Len(scored) >= 1

\* C8 (as claimed): after a step the mode stored in the state and the mode of
\* the newest log row are one of the five names.
C8_ModeIsOneOfFive ==
    HasDriven =>
        /\ drive.mode \in FiveModes
        /\ drive_log[Len(drive_log)].mode \in FiveModes

\* C9 (as claimed): for any throttle and brake, in range or not, a step
\* leaves speed >= 0, soc in [5,100] and not above its prior value, and
\* temperature not below its prior value.
C9_OutOfRangeIsClamped ==
    [][op' = "step" =>
          /\ drive'.speed >= 0
          /\ 5 * SocUnit <= drive'.soc /\ drive'.soc <= 100 * SocUnit
          /\ drive'.soc <= Get(drive, "soc", 95 * SocUnit)
          /\ drive'.temperature >= Get(drive, "temperature", 30 * TempUnit)]_vars

SameCall(a, b) ==
    a.hours = b.hours /\ a.freq_minutes = b.freq_minutes /\ a.seed = b.seed

\* C11 (as claimed): two calls of simulate with the same hours, freq_minutes
\* and seed, a seed being supplied, return the same samples in every field,
\* timestamps included, whenever the calls are made.
C11_SeededSimulateIdentical ==
    \A i \in 1..Len(sims), j \in 1..Len(sims) :
        (SameCall(sims[i], sims[j]) /\ sims[i].seed.given)
        => sims[i].out = sims[j].out

\* C20: simulate(hours, freq_minutes) returns max(2, hours*60/freq_minutes)
\* samples, consecutive timestamps are exactly freq_minutes apart and
\* increasing, and the last sample carries the time of the call.
C20_SimulateLengthAndTimes ==
    \A i \in 1..Len(sims) :
        LET c == sims[i]
            n == Len(c.out)
        IN  /\ n = Max(2, (c.hours * 60) \div c.freq_minutes)
            /\ \A k \in 1..(n - 1) :
                  c.out[k + 1].timestamp - c.out[k].timestamp = c.freq_minutes * 60000
            /\ c.out[n].timestamp = c.at

\* one call whose length is the minimum of 2 and one of 72 samples
C20_Witness ==
    /\ Len(sims) = 2
    /\ sims[1].hours = 1 /\ Len(sims[1].out) = 2
    /\ sims[2].hours = 6 /\ Len(sims[2].out) = 72
    /\ sims[2].at > sims[1].at

\* C19: when the last voltage of the window is not below the first, the
\* voltage drop rate and the voltage score are 0; if moreover the mean
\* temperature is 25 and the largest cycle count 0, the score and all three
\* sub-scores are 0.
C19_RisingVoltageScoresZero ==
    (~df.isNone /\ df.rows # << >>) =>
        LET recent == Tail12(df.rows)
            n      == Len(recent)
        IN  recent[n].voltage >= recent[1].voltage =>
              \A i \in 1..Len(scored) :
                  /\ scored[i].rate = [inf |-> FALSE, val |-> 0]
                  /\ scored[i].v_score = 0
                  /\ (SumTemperature(recent, n) = 250 * n /\ MaxCycles(recent, n) = 0)
                     => /\ scored[i].score = 0
                        /\ scored[i].t_score = 0
                        /\ scored[i].c_score = 0

\* a window of 12 rows with the last voltage above the first (and a dip in
\* between), mean temperature 25 and no cycles, scored as 0
C19_Witness ==
    /\ Len(df.rows) = 12
    /\ df.rows[12].voltage > df.rows[1].voltage
    /\ df.rows[2].voltage < df.rows[1].voltage
    /\ df.rows[1].temperature = 250
    /\ df.rows[1].cycles = 0
    /\ Len(scored) >= 1
    /\ scored[1].kind = "score"
    /\ scored[1].score = 0

\* C13: for in-range inputs, state of charge after a drive step (or a run of
\* steps) is never above its value before and never below 5, in every mode.
C13_SocNeverRises ==
    [][drive' # << >> =>
          /\ drive'.soc <= Get(drive, "soc", 95 * SocUnit)
          /\ drive'.soc >= 5 * SocUnit]_vars

\* a step in Regen mode, and a braking step with little throttle, have lowered soc
C13_Witness ==
    /\ Len(produced) = 2
    /\ produced[1].mode = RegenStr
    /\ produced[1].soc < 95000
    /\ produced[2].throttle = 10 /\ produced[2].brake = 100
    /\ produced[2].mode = NormalStr
    /\ drive.soc < 95 * SocUnit
    /\ produced[2].soc < produced[1].soc

\* C14: for in-range inputs, temperature after a drive step (or a run of
\* steps) is never below its value before, and never below the initial 30.
C14_TemperatureNeverFalls ==
    /\ [](drive # << >> => drive.temperature >= 30 * TempUnit)
    /\ [][drive' # << >> =>
             drive'.temperature >= Get(drive, "temperature", 30 * TempUnit)]_vars

\* the car coasts with the throttle closed after a heated step
C14_Witness ==
    /\ Len(produced) = 2
    /\ produced[1].throttle = 100
    /\ produced[2].throttle = 0
    /\ drive.speed > 0
    /\ drive.temperature > 30 * TempUnit

\* base acceleration and deceleration of a step with the given widget values
AccelOf(c) == 35 * c.throttle * ModeFactors(c.mode).a
DecelOf(c) == 600 * c.brake + 1000

\* a single step was made from rest with acceleration above deceleration
SteppedFromRest ==
    /\ op' = "step"
    /\ Get(drive, "speed", 0) = 0
    /\ AccelOf(controls') > DecelOf(controls')

\* C17 (as claimed): a step from rest in which acceleration exceeds
\* deceleration yields positive speed, soc strictly below its prior value and
\* exactly one appended log entry whose mode is the requested mode.
C17_StepFromRest ==
    [][SteppedFromRest =>
          /\ drive'.speed > 0
          /\ drive'.soc < Get(drive, "soc", 95 * SocUnit)
          /\ Len(produced') = Len(produced) + 1
          /\ drive_log'[Len(drive_log')] = produced'[Len(produced')]
          /\ drive_log'[Len(drive_log')].mode = controls'.mode]_vars

\* C17 (amended): as C17, with soc strictly below its prior value when that
\* was above the floor of 5, and equal to 5 when it was at the floor.
C17_StepFromRestAboveFloor ==
    [][SteppedFromRest =>
          /\ drive'.speed > 0
          /\ IF Get(drive, "soc", 95 * SocUnit) > 5 * SocUnit
             THEN drive'.soc < Get(drive, "soc", 95 * SocUnit)
             ELSE drive'.soc = 5 * SocUnit
          /\ Len(produced') = Len(produced) + 1
          /\ drive_log'[Len(drive_log')] = produced'[Len(produced')]
          /\ drive_log'[Len(drive_log')].mode = controls'.mode]_vars

\* the example: full throttle, no brake, one second, Sport, from the default state
C17_Witness ==
    /\ Len(produced) = 1
    /\ controls = Controls(SportStr, 100, 0, 6, 10)
    /\ drive.speed = 1728000
    /\ drive.soc < 95 * SocUnit
    /\ drive_log = << produced[1] >>
    /\ produced[1].mode = SportStr

\* what one coasting step takes off the speed at the least: the rolling
\* resistance of 0.1 m/s^2 over dt tenths of a second, 0.036 km/h per tenth,
\* less the rounding of the two unit conversions
LeastDrop(dt) == 3599 * dt

\* C12: with the throttle at 0, for any brake, mode and step duration, a step
\* (or a run of steps) leaves speed at or below its previous value, strictly
\* below when that was positive, and at 0 when that was 0; each step takes
\* off at least the rolling resistance or ends at 0, so that repeated steps
\* reach speed 0 after finitely many steps.
C12_CoastingSlowsToRest ==
    [][(controls'.throttle = 0 /\ Len(produced') > Len(produced)) =>
          LET before == Get(drive, "speed", 0)
              steps  == Len(produced') - Len(produced)
          IN  /\ drive'.speed <= before
              /\ before > 0 => drive'.speed < before
              /\ before = 0 => drive'.speed = 0
              /\ drive'.speed <= Max(0, before - steps * LeastDrop(controls'.dt))]_vars

\* the car has coasted to rest without the brake, one fifth of a second at a
\* time, and a further step has left it at rest
C12_Witness ==
    /\ Len(produced) > 90
    /\ controls.throttle = 0 /\ controls.brake = 0 /\ controls.dt = 2
    /\ drive.speed = 0
    /\ produced[Len(produced) - 1].speed = 0
    /\ produced[Len(produced) - 2].speed > 0

\* C15 (as claimed): full-throttle commands sent again and again to a fresh
\* worker are answered with strictly increasing speeds that settle: by the end
\* of the ramp the reported speed has stopped increasing.
C15_RampSettles ==
    /\ \A k \in 1..(Len(emitted) - 1) : emitted[k + 1].speed > emitted[k].speed
    /\ Len(emitted) = MaxRampCmds =>
          emitted[MaxRampCmds].speed = emitted[MaxRampCmds - 1].speed

\* C16 (as claimed): read_can_csv fails as a whole whenever one of the six
\* required columns is absent from the header or a timestamp cannot be
\* parsed, so a file that was ingested carries all six columns.
C16_CsvNeedsAllColumns ==
    \A i \in 1..Len(reads) :
        LET file == reads[i].file
            out  == reads[i].out
        IN  /\ (~(SixColumns \subseteq file.header)
                  \/ \E k \in 1..Len(file.stamps) : ~ParseTimestamp(file.stamps[k]).ok)
               => out.kind = "raised"
            /\ out.kind = "frame" => SixColumns \subseteq out.columns

\* C18: in every telematics view that is rendered, network_status is "Offline"
\* exactly when the speed is at least 80 km/h and "Online" otherwise, and
\* gps_fix is "3D" exactly when the speed is above 1 km/h and "2D/Static"
\* otherwise; a session that has not driven yet (the default state at rest)
\* shows "Online" and "2D/Static", and a speed of 90 km/h at index 0 gives
\* "Offline" and "3D".
C18_TelematicsThresholds ==
    /\ \A i \in 1..Len(snaps) :
          LET speed == snaps[i].drive.speed
              tcu   == snaps[i].out.TCU
          IN  /\ tcu.network_status \in {"Online", "Offline"}
              /\ tcu.network_status = "Offline" <=> speed >= 80 * SpeedUnit
              /\ tcu.gps_fix \in {"3D", "2D/Static"}
              /\ tcu.gps_fix = "3D" <=> speed > 1 * SpeedUnit
              /\ ~HasDriven => /\ snaps[i].drive = DefaultDrive
                               /\ tcu.network_status = "Online"
                               /\ tcu.gps_fix = "2D/Static"
    /\ LET tcu == EcuViews([DefaultDrive EXCEPT !.speed = 90 * SpeedUnit], 0).TCU
       IN  tcu.network_status = "Offline" /\ tcu.gps_fix = "3D"

\* a view rendered between 80 and 90 km/h
C18_Witness ==
    /\ Len(snaps) >= 1
    /\ snaps[Len(snaps)].drive.speed >= 80 * SpeedUnit
    /\ snaps[Len(snaps)].drive.speed < 90 * SpeedUnit
    /\ snaps[Len(snaps)].out.TCU.network_status = "Offline"
    /\ snaps[Len(snaps)].out.TCU.gps_fix = "3D"

\* the row that records the stored state d: its five outputs, rounded as the
\* row rounds them
RecordsState(row, d) ==
    /\ row.speed       = RoundHalfEven(d.speed, SpeedUnit \div 100)
    /\ row.soc         = RoundHalfEven(d.soc, SocUnit \div 1000)
    /\ row.temperature = RoundHalfEven(d.temperature, TempUnit \div 100)
    /\ row.cycles      = d.cycles
    /\ row.mode        = d.mode

\* C21: the vehicle state and the drive log move together. No state has a
\* stored vehicle state without a log entry or a log entry without a stored
\* state; the log holds one entry per call (up to its capacity) and its newest
\* entry records the speed, soc, temperature, cycle count and mode of the
\* stored state, up to the entry's rounding.
C21_StateAndLogMoveTogether ==
    /\ HasDriven <=> drive_log # << >>
    /\ HasDriven <=> produced # << >>
    /\ Len(drive_log) = Min(Len(produced), LogCapacity)
    /\ HasDriven =>
          /\ DOMAIN drive = {"speed", "soc", "temperature", "cycles", "mode"}
          /\ drive_log[Len(drive_log)] = produced[Len(produced)]
          /\ RecordsState(drive_log[Len(drive_log)], drive)

\* the log is full, the car moves, and the newest entry is a rounded copy
C21_Witness ==
    /\ HasDriven
    /\ Len(produced) > LogCapacity
    /\ drive.speed > 0
    /\ drive_log[Len(drive_log)].speed * (SpeedUnit \div 100) # drive.speed
    /\ RecordsState(drive_log[Len(drive_log)], drive)

\* the steps of the SIL page and of the worker process
SilOps == {"visit", "send", "recv", "timeout", "terminate", "joined", "worker"}

\* C22: the toy ECU and the shared drive model do not touch each other. A
\* send, a receive, a timeout, a terminate or a step of the worker leaves the
\* vehicle state and the drive log as they are; a drive step leaves the
\* worker, its speed and its queues as they are; and every response is the
\* speed computed from the commands alone, whatever the vehicle state is.
C22_EcuIndependentOfDrive ==
    /\ [][ /\ op' \in SilOps => UNCHANGED <<drive, drive_log>>
           /\ op' = "step" => UNCHANGED <<worker, cmd_q, resp_q, emitted, registered>>
         ]_vars
    /\ [](\A k \in 1..Len(emitted) :
             emitted[k] = Response(SpeedAfter(SelectSeq(sent, IsCmd), k)))

\* the car has been driven to a speed, the worker has answered a command
\* with a speed of its own, and the caller has received it
C22_Witness ==
    /\ HasDriven
    /\ drive.speed > 0
    /\ Len(emitted) >= 1
    /\ report.kind = "speed"
    /\ worker.speed > 0
    /\ worker.speed # drive.speed

\* C23 (as claimed): the sample index of compute_ecu_snapshot goes up by one
\* with every drive step, for any number of steps: it is the number of drive
\* steps made in the session.
C23_IndexCountsSteps == SnapshotIndex = Len(produced)

\* |speed - 60| / 60 * 3 rounded to the nearest integer
NearestThirds(speed) ==
    RoundHalfEven(Abs(speed - 60 * SpeedUnit) * 3, 60 * SpeedUnit)

\* C24 (as claimed): in every telematics view the signal strength is
\* max(1, 5 - round(|speed - 60| / 60 * 3)), rounded to the nearest integer,
\* and lies in 1..5.
C24_SignalRoundsToNearest ==
    \A i \in 1..Len(snaps) :
        LET speed  == snaps[i].drive.speed
            signal == snaps[i].out.TCU.signal_strength
        IN  /\ signal = Max(1, 5 - NearestThirds(speed))
            /\ signal \in 1..5

\* the cycle count before the newest drive step
CyclesBefore ==
    IF Len(produced) >= 2 THEN produced[Len(produced) - 1].cycles ELSE 0

\* C25 (as claimed): a drive step raises the cycle count in proportion to
\* |current| * dt, up to the cap of 1000, so a step with a non-zero current
\* below the cap leaves the count higher than it was; the count never
\* decreases and never exceeds 1000.
C25_CurrentAccumulatesCycles ==
    HasDriven =>
        /\ drive.cycles >= CyclesBefore
        /\ drive.cycles <= 1000
        /\ (produced[Len(produced)].current # 0 /\ CyclesBefore < 1000)
              => drive.cycles > CyclesBefore

\* the rows with every sample before the last 12 replaced: another time,
\* voltage v, and temperature and cycle count tc
EarlierReplaced(rows, v, tc) ==
    [k \in 1..Len(rows) |->
        IF k <= Len(rows) - 12
        THEN [timestamp |-> 0, voltage |-> v, temperature |-> tc[1], cycles |-> tc[2]]
        ELSE rows[k]]

\* the rows with every sample before the last 12 dropped
EarlierDropped(rows) ==
    IF Len(rows) <= 12 THEN rows ELSE SubSeq(rows, Len(rows) - 11, Len(rows))

\* C26: the score and its breakdown depend on the last 12 samples only: the
\* result for the loaded frame is the result for the frame with its earlier
\* samples dropped, and for every frame with other earlier samples.
C26_OnlyLastTwelveCount ==
    \A i \in 1..Len(scored) :
        /\ scored[i] = compute_risk_score(Frame(EarlierDropped(df.rows)))
        /\ \A v \in VoltageInputs, tc \in TempCycleInputs :
              scored[i] = compute_risk_score(Frame(EarlierReplaced(df.rows, v, tc)))

\* a frame of 13 samples was scored whose first sample is unlike the second
\* in voltage, with a falling voltage over the last 12
C26_Witness ==
    /\ Len(scored) >= 1
    /\ Len(df.rows) = 13
    /\ df.rows[1].voltage # df.rows[2].voltage
    /\ scored[1].kind = "score"
    /\ scored[1].v_score > 0
    /\ scored[1] = compute_risk_score(Frame(EarlierDropped(df.rows)))

\* the depletion of a step at the given current: current * dt * 0.0005, in 1e-6 %
FullDepletion(current, dt) == MulDiv(current, dt, 200000)

\* the same depletion scaled by 0.7 / regen_factor
ScaledDepletion(current, dt, regen_factor) ==
    (FullDepletion(current, dt) * 7) \div regen_factor

\* C27: a press of "Step" lowers the charge by current * dt * 0.0005, scaled
\* by 0.7 / regen_factor exactly when the mode is Regen or the throttle is
\* below 20 with the brake above 10, and unscaled otherwise (down to the floor
\* of 5); the scaled depletion is never larger than the unscaled one.
C27_RegenScalesDepletion ==
    [][op' = "step" =>
          LET c       == controls'
              f       == ModeFactors(capitalize(c.mode))
              current == CurrentOf(drive'.speed, c.throttle, f.cur)
              full    == FullDepletion(current, c.dt)
              scaled  == ScaledDepletion(current, c.dt, f.regen)
              regen   == capitalize(c.mode) = RegenStr
                           \/ (c.throttle < 20 /\ c.brake > 10)
              soc0    == Get(drive, "soc", 95 * SocUnit)
          IN  /\ drive'.soc = Max(5 * SocUnit,
                                  soc0 - (IF regen THEN scaled ELSE full))
              /\ scaled <= full
      ]_vars

\* a Sport step just inside the rule (throttle 19, brake 11) was followed by
\* Sport steps just outside it on either side; the first took less charge
C27_Witness ==
    /\ Len(produced) = 2
    /\ produced[1].mode = SportStr /\ produced[2].mode = SportStr
    /\ produced[1].throttle = 19 /\ produced[1].brake = 11
    /\ produced[2].throttle = 20 /\ produced[2].brake = 11
    /\ 95000 - produced[1].soc < produced[1].soc - produced[2].soc
    /\ drive.soc < 95 * SocUnit

\* C28 (as claimed): no score is computed with a zero elapsed time: for every
\* scored window of two or more samples the first and the last sample are
\* not in the same second, and the voltage drop rate of every score is a
\* finite number.
C28_ElapsedTimeNeverZero ==
    \A i \in 1..Len(scored) :
        scored[i].kind = "score" =>
            LET recent == Tail12(df.rows)
                n      == Len(recent)
            IN  /\ n >= 2 => EpochSeconds(recent[n].timestamp)
                               # EpochSeconds(recent[1].timestamp)
                /\ ~scored[i].rate.inf

\* C29 (as claimed): the response the caller has just received is the
\* worker's reply to the command the caller sent immediately before, the
\* newest command, also when an earlier receive has timed out.
C29_ReplyAnswersLatestCommand ==
    op = "recv" =>
        report = SpeedReport(Response(SpeedAfter(SelectSeq(sent, IsCmd), CommandsSent)))

\* C30: in every battery-management view rendered during a drive, the state
\* of health is max(60, 100 - cycles * 0.02 - max(0, temp - 35) * 0.1) of the
\* stored cycle count and temperature and lies in [60, 100]; the status is
\* "OK" exactly when soh > 80, "Monitor" exactly when 70 < soh <= 80 and
\* "Degraded" exactly when soh <= 70.
C30_HealthAndStatus ==
    \A i \in 1..Len(snaps) :
        LET d   == snaps[i].drive
            bms == snaps[i].out.BMS
            raw == 100 * 10^6 - d.cycles * 20000
                     - (IF d.temperature > 35 * TempUnit
                        THEN d.temperature - 35 * TempUnit ELSE 0)
        IN  /\ bms.soh = (IF raw > 60 * 10^6 THEN raw ELSE 60 * 10^6)
            /\ bms.soh >= 60 * 10^6 /\ bms.soh <= 100 * 10^6
            /\ bms.status \in {"OK", "Monitor", "Degraded"}
            /\ bms.status = "OK" <=> bms.soh > 80 * 10^6
            /\ bms.status = "Monitor" <=> (bms.soh > 70 * 10^6 /\ bms.soh <= 80 * 10^6)
            /\ bms.status = "Degraded" <=> bms.soh <= 70 * 10^6

\* the pack has aged to the floor: the view shows "Degraded" at a state of
\* health of 60, with the unfloored value below it
C30_Witness ==
    /\ Len(snaps) >= 1
    /\ snaps[1].out.BMS.status = "Degraded"
    /\ snaps[1].out.BMS.soh = 60 * 10^6
    /\ 100 * 10^6 - snaps[1].drive.cycles * 20000
         - (snaps[1].drive.temperature - 35 * TempUnit) < 60 * 10^6

=============================================================================
